---- MODULE Spec2Model ----
(***************************************************************************)
(* A model of the debugger crew's three analysis tools                     *)
(* (src/src/debugger/tools/custom_tool.py), of Debugger.run                *)
(* (src/src/debugger/crew.py) and of the run entry point                   *)
(* (src/src/debugger/main.py).                                             *)
(*                                                                         *)
(* Source text.  A text is the sequence of its lines, as str.splitlines    *)
(* yields them; a line is the sequence of its tokens, and the line's       *)
(* characters are the tokens' characters one after the other.  White space *)
(* is explicit: the tokens " " and "\t".  Two word tokens are always       *)
(* separated by white space, indentation is made of spaces, and no line    *)
(* closes a bracket it did not open.                                       *)
(*                                                                         *)
(* ast.parse is modelled on a subset of Python: import, from-import, pass, *)
(* assignment, expression statements, class, def and async def, with       *)
(* blocks by indentation or a simple statement after the colon.            *)
(* The interpreter's resources are taken to be unbounded (no               *)
(* RecursionError or MemoryError).                                         *)
(***************************************************************************)
EXTENDS Integers, Sequences, FiniteSets, TLC

VARIABLES
    code,           \* the text handed to a tool's _run
    tool,           \* which _run has returned: "none", "code_analysis", "solution_validator"
    result,         \* the mapping that _run returned
    escaped,        \* the class of an exception that left _run, or "None"
    files,          \* the names of the files present under project_path
    pip,            \* what running `pip list --format=json` does on this host
    scanPc,         \* DependencyAnalyzer._run: "idle", "blocked" (in subprocess.run), "done"
    scanResult,     \* the mapping that DependencyAnalyzer._run returned
    pc,             \* the statement the run stands at
    inputs,         \* the inputs dict, which Debugger.run changes in place
    inputs0,        \* the inputs dict as the caller built it
    entry,          \* the function the run started at: "main.run" or "Debugger.run"
    created,        \* what Debugger.run has created of "agents", "tasks", "crew"
    kickoff,        \* whether crew.kickoff was called, and the inputs it was given
    outputDir,      \* whether the directory output/ exists
    debugResults,   \* the debug_result files written under output/
    caught,         \* the exception raised, and the statement that raised it
    exitStatus      \* the status main.run ended the process with, -1 while it runs

vars == <<code, tool, result, escaped, files, pip, scanPc, scanResult,
          pc, inputs, inputs0, entry, created, kickoff, outputDir, debugResults,
          caught, exitStatus>>

toolVars == <<code, tool, result, escaped>>
scanVars == <<files, pip, scanPc, scanResult>>
runVars  == <<pc, inputs, inputs0, entry, created, kickoff, outputDir, debugResults,
              caught, exitStatus>>

----------------------------------------------------------------------------
(* Bounds of the model. *)

\* the longest text, in lines
MaxLines == 3

----------------------------------------------------------------------------
(* Sequences. *)

Map(f(_), s) == [i \in 1..Len(s) |-> f(s[i])]

RECURSIVE Concat(_)
Concat(ss) == IF ss = <<>> THEN <<>> ELSE Head(ss) \o Concat(Tail(ss))

RECURSIVE Sum(_)
Sum(s) == IF s = <<>> THEN 0 ELSE Head(s) + Sum(Tail(s))

Range(s) == {s[i] : i \in 1..Len(s)}

Texts(lines, n) == UNION {[1..k -> lines] : k \in 0..n}

----------------------------------------------------------------------------
(* Tokens. *)

\* the white space tokens; "\n" stands between the lines of a text, in no line
IsSpace(t) == t \in {" ", "\t", "\n"}

\* try and except are words of the language that ast_parse below takes no statement of
Keywords == {"import", "from", "as", "class", "def", "async", "pass", "try", "except"}

Punctuation == {"(", ")", ":", ",", "=", "==", ".", "[", "]", "{", "}", "*", "/"}

\* a string literal of 87 characters
LongString == "'aaaaaaaaaaaaaaaaaaaaaaaaaaaaaaaaaaaaaaaaaaaaaaaaaaaaaaaaaaaaaaaaaaaaaaaaaaaaaaaaaaaaa'"

Docstring == "'''doc'''"

Literals == {"0", "1", "2", LongString, Docstring}

IsName(t) == ~IsSpace(t) /\ t \notin Keywords \cup Punctuation \cup Literals

\* str.isupper-style classes of the regular expressions, per token
UpperNames == {"X", "MAX_SIZE", "_"}
\* the tokens made of [A-Z_] only
IsUpperUnderscore(t) == t \in UpperNames
\* the tokens that start with a character of [A-Za-z]
StartsWithLetter(t) == (IsName(t) /\ t # "_") \/ t \in Keywords
\* the tokens with the characters "def" in them
ContainsDef(t) == t \in {"def", "undefined", "default"}
\* the tokens that start with "=", and those that end with it
StartsWithEquals(t) == t \in {"=", "=="}
EndsWithEquals(t) == t \in {"=", "=="}

Spaces(n) == [i \in 1..n |-> " "]

\* the line's tokens that are not white space
Strip(line) == SelectSeq(line, LAMBDA t : ~IsSpace(t))

\* the columns of white space the line starts with
Indent(line) ==
    LET solid == {i \in 1..Len(line) : ~IsSpace(line[i])}
    IN  IF solid = {} THEN Len(line)
        ELSE (CHOOSE i \in solid : \A j \in solid : i <= j) - 1

\* the line's length in characters
LineLength(line) == Sum(Map(Len, line))

----------------------------------------------------------------------------
(* ast.parse: expressions. *)

Invalid == [kind |-> "Invalid"]

IsValid(node) == node.kind # "Invalid"

AllValid(nodes) == \A k \in 1..Len(nodes) : IsValid(nodes[k])

Openers == {"(", "[", "{"}
Closers == {")", "]", "}"}

Delta(t) == IF t \in Openers THEN 1 ELSE IF t \in Closers THEN -1 ELSE 0

\* the index of the bracket that closes the one at i, or 0
RECURSIVE CloseFrom(_, _, _)
CloseFrom(toks, j, depth) ==
    IF j > Len(toks) THEN 0
    ELSE IF depth + Delta(toks[j]) = 0 THEN j
    ELSE CloseFrom(toks, j + 1, depth + Delta(toks[j]))

MatchClose(toks, i) == CloseFrom(toks, i, 0)

\* toks cut at the occurrences of sep that stand outside every bracket
RECURSIVE SplitFrom(_, _, _, _, _)
SplitFrom(toks, i, sep, depth, cur) ==
    IF i > Len(toks) THEN <<cur>>
    ELSE IF toks[i] = sep /\ depth = 0
         THEN <<cur>> \o SplitFrom(toks, i + 1, sep, 0, <<>>)
         ELSE SplitFrom(toks, i + 1, sep, depth + Delta(toks[i]), Append(cur, toks[i]))

SplitTop(toks, sep) == SplitFrom(toks, 1, sep, 0, <<>>)

RECURSIVE ParseExpr(_)
RECURSIVE ParseTrailers(_, _, _)
RECURSIVE ParseCallArg(_)

\* an argument of a call: name=value, or a value
ParseCallArg(toks) ==
    LET kw == Len(toks) >= 3 /\ IsName(toks[1]) /\ toks[2] = "="
        Wrap(v) ==
            IF kw /\ IsValid(v) THEN [kind |-> "keyword", arg |-> toks[1], value |-> v]
            ELSE v
    IN  Wrap(ParseExpr(IF kw THEN SubSeq(toks, 3, Len(toks)) ELSE toks))

\* what follows a name: .attr, (arguments) and [index], from token i on
ParseTrailers(node, toks, i) ==
    LET Call(j, args) ==
            IF AllValid(args)
            THEN ParseTrailers(
                     [kind |-> "Call", func |-> node,
                      args |-> SelectSeq(args, LAMBDA a : a.kind # "keyword"),
                      keywords |-> SelectSeq(args, LAMBDA a : a.kind = "keyword")],
                     toks, j + 1)
            ELSE Invalid
        Subscript(j, sl) ==
            IF IsValid(sl)
            THEN ParseTrailers([kind |-> "Subscript", value |-> node, slice |-> sl],
                               toks, j + 1)
            ELSE Invalid
        Bracket(j) ==
            IF j = 0 THEN Invalid
            ELSE IF toks[i] = "("
            THEN Call(j, IF j = i + 1 THEN <<>>
                         ELSE Map(ParseCallArg, SplitTop(SubSeq(toks, i + 1, j - 1), ",")))
            ELSE IF j > i + 1
            THEN Subscript(j, ParseExpr(SubSeq(toks, i + 1, j - 1)))
            ELSE Invalid
    IN  IF i > Len(toks) THEN node
        ELSE IF toks[i] = "."
        THEN IF i + 1 <= Len(toks) /\ IsName(toks[i + 1])
             THEN ParseTrailers([kind |-> "Attribute", value |-> node,
                                 attr |-> toks[i + 1]], toks, i + 2)
             ELSE Invalid
        ELSE IF toks[i] \in {"(", "["} THEN Bracket(MatchClose(toks, i))
        ELSE Invalid

ParseExpr(toks) ==
    LET Elts(kind, elts) ==
            IF AllValid(elts) THEN [kind |-> kind, elts |-> elts] ELSE Invalid
        Compare(ops) ==
            IF AllValid(ops)
            THEN [kind |-> "Compare", left |-> ops[1], right |-> ops[2]]
            ELSE Invalid
        List(j) ==
            IF j # Len(toks) THEN Invalid
            ELSE Elts("List", IF j = 2 THEN <<>>
                              ELSE Map(ParseExpr, SplitTop(SubSeq(toks, 2, j - 1), ",")))
        Atom ==
            IF Len(toks) = 1 /\ toks[1] \in Literals
            THEN [kind |-> "Constant", value |-> toks[1]]
            ELSE IF toks[1] = "[" THEN List(MatchClose(toks, 1))
            ELSE IF toks = <<"{", "}">> THEN [kind |-> "Dict"]
            ELSE IF IsName(toks[1])
            THEN ParseTrailers([kind |-> "Name", id |-> toks[1]], toks, 2)
            ELSE Invalid
        ByCompare(parts) ==
            IF Len(parts) = 2 THEN Compare(Map(ParseExpr, parts)) ELSE Atom
        ByComma(parts) ==
            IF Len(parts) >= 2 THEN Elts("Tuple", Map(ParseExpr, parts))
            ELSE ByCompare(SplitTop(toks, "=="))
    IN  IF toks = <<>> THEN Invalid ELSE ByComma(SplitTop(toks, ","))

----------------------------------------------------------------------------
(* ast.parse: statements. *)

ParseAlias(toks) ==
    IF Len(toks) = 1 /\ IsName(toks[1])
    THEN [kind |-> "alias", name |-> toks[1], asname |-> "None"]
    ELSE IF Len(toks) = 3 /\ IsName(toks[1]) /\ toks[2] = "as" /\ IsName(toks[3])
    THEN [kind |-> "alias", name |-> toks[1], asname |-> toks[3]]
    ELSE Invalid

ParseAliases(toks) ==
    IF toks = <<>> THEN <<Invalid>> ELSE Map(ParseAlias, SplitTop(toks, ","))

TargetKinds == {"Name", "Attribute", "Subscript", "Tuple", "List"}

\* a statement that fits on a line: pass, import, from-import, assignment, expression
ParseSimple(toks) ==
    LET Import(module, names) ==
            IF ~AllValid(names) THEN Invalid
            ELSE IF module = "" THEN [kind |-> "Import", names |-> names]
            ELSE [kind |-> "ImportFrom", module |-> module, names |-> names]
        Assign(parts) ==
            IF /\ AllValid(parts)
               /\ \A k \in 1..(Len(parts) - 1) : parts[k].kind \in TargetKinds
            THEN [kind |-> "Assign", targets |-> SubSeq(parts, 1, Len(parts) - 1),
                  value |-> parts[Len(parts)]]
            ELSE Invalid
        Expr(e) == IF IsValid(e) THEN [kind |-> "Expr", value |-> e] ELSE Invalid
        ByEquals(parts) ==
            IF Len(parts) >= 2 THEN Assign(Map(ParseExpr, parts))
            ELSE Expr(ParseExpr(toks))
    IN  IF toks = <<>> THEN Invalid
        ELSE IF toks = <<"pass">> THEN [kind |-> "Pass"]
        ELSE IF toks[1] = "import" THEN Import("", ParseAliases(Tail(toks)))
        ELSE IF toks[1] = "from"
        THEN IF Len(toks) >= 4 /\ IsName(toks[2]) /\ toks[3] = "import"
             THEN Import(toks[2], ParseAliases(SubSeq(toks, 4, Len(toks))))
             ELSE Invalid
        ELSE ByEquals(SplitTop(toks, "="))

\* one parameter of a def: name, name=default, *name or /
ParseParam(toks) ==
    LET Defaulted(d) ==
            IF IsValid(d) THEN [kind |-> "arg", arg |-> toks[1], default |-> d]
            ELSE Invalid
    IN  IF Len(toks) = 1 /\ IsName(toks[1])
        THEN [kind |-> "arg", arg |-> toks[1], default |-> Invalid]
        ELSE IF Len(toks) >= 3 /\ IsName(toks[1]) /\ toks[2] = "="
        THEN Defaulted(ParseExpr(SubSeq(toks, 3, Len(toks))))
        ELSE IF Len(toks) = 2 /\ toks[1] = "*" /\ IsName(toks[2])
        THEN [kind |-> "vararg", arg |-> toks[2], default |-> Invalid]
        ELSE IF toks = <<"/">>
        THEN [kind |-> "slash", arg |-> "/", default |-> Invalid]
        ELSE Invalid

Arg(p) == [kind |-> "arg", arg |-> p.arg]

Defaults(ps) ==
    Map(LAMBDA q : q.default, SelectSeq(ps, LAMBDA q : IsValid(q.default)))

\* the arguments node of the parameters between the parentheses of a def
ParseArguments(toks) ==
    LET Build(ps, slashes, stars) ==
            LET n     == Len(ps)
                slash == IF slashes = {} THEN 0 ELSE CHOOSE k \in slashes : TRUE
                star  == IF stars = {} THEN n + 1 ELSE CHOOSE k \in stars : TRUE
                plain == SelectSeq(SubSeq(ps, 1, star - 1), LAMBDA q : q.kind = "arg")
            IN  IF /\ Cardinality(slashes) <= 1 /\ Cardinality(stars) <= 1
                   /\ slash # 1 /\ slash < star
                   /\ \A j, k \in 1..Len(plain) :
                          j < k /\ IsValid(plain[j].default) => IsValid(plain[k].default)
                THEN [kind        |-> "arguments",
                      posonlyargs |-> Map(Arg, SubSeq(ps, 1, slash - 1)),
                      args        |-> Map(Arg, SubSeq(ps, slash + 1, star - 1)),
                      vararg      |-> IF star <= n THEN <<Arg(ps[star])>> ELSE <<>>,
                      kwonlyargs  |-> Map(Arg, SubSeq(ps, star + 1, n)),
                      kw_defaults |-> Defaults(SubSeq(ps, star + 1, n)),
                      defaults    |-> Defaults(plain)]
                ELSE Invalid
        Checked(ps) ==
            IF AllValid(ps)
            THEN Build(ps, {k \in 1..Len(ps) : ps[k].kind = "slash"},
                       {k \in 1..Len(ps) : ps[k].kind = "vararg"})
            ELSE Invalid
    IN  Checked(IF toks = <<>> THEN <<>> ELSE Map(ParseParam, SplitTop(toks, ",")))

NoHeader == [ok |-> FALSE, node |-> Invalid, rest |-> <<>>]

\* "def" name "(" parameters ")" ":", and what follows the colon
ParseDef(kind, toks) ==
    LET Header(j, a) ==
            IF IsValid(a)
            THEN [ok |-> TRUE,
                  node |-> [kind |-> kind, name |-> toks[2], args |-> a, body |-> <<>>],
                  rest |-> SubSeq(toks, j + 2, Len(toks))]
            ELSE NoHeader
        Closed(j) ==
            IF j > 0 /\ j < Len(toks) /\ toks[j + 1] = ":"
            THEN Header(j, ParseArguments(SubSeq(toks, 4, j - 1)))
            ELSE NoHeader
    IN  IF Len(toks) >= 5 /\ toks[1] = "def" /\ IsName(toks[2]) /\ toks[3] = "("
        THEN Closed(MatchClose(toks, 3))
        ELSE NoHeader

CompoundKeywords == {"class", "def", "async"}

\* the header of a class, def or async def, and what follows the colon
ParseCompound(toks) ==
    IF toks[1] = "class"
    THEN IF Len(toks) >= 3 /\ IsName(toks[2]) /\ toks[3] = ":"
         THEN [ok |-> TRUE,
               node |-> [kind |-> "ClassDef", name |-> toks[2], body |-> <<>>],
               rest |-> SubSeq(toks, 4, Len(toks))]
         ELSE NoHeader
    ELSE ParseDef(IF toks[1] = "def" THEN "FunctionDef" ELSE "AsyncFunctionDef",
                  IF toks[1] = "def" THEN toks ELSE Tail(toks))

Failure(exc, msg) == [exc |-> exc, msg |-> msg, body |-> <<>>, next |-> 0]

\* the statements at indentation ind from line i on, up to the first line
\* indented less; dedent says that line i follows a block
RECURSIVE ParseSuite(_, _, _, _)
ParseSuite(ls, i, ind, dedent) ==
    LET Cons(node, rest) ==
            IF rest.exc # "None" THEN rest
            ELSE [exc |-> "None", msg |-> "", body |-> <<node>> \o rest.body,
                  next |-> rest.next]
        \* one: the statement that starts at line i, and the line after it
        Then(one) ==
            IF one.exc # "None" THEN Failure(one.exc, one.msg)
            ELSE Cons(one.node, ParseSuite(ls, one.next, ind, one.block))
        OnLine(node) ==
            [exc |-> IF IsValid(node) THEN "None" ELSE "SyntaxError",
             msg |-> "invalid syntax", node |-> node, next |-> i + 1, block |-> FALSE]
        Inline(c, stmt) ==
            OnLine(IF IsValid(stmt) THEN [c.node EXCEPT !.body = <<stmt>>] ELSE Invalid)
        Block(c, sub) ==
            [exc |-> sub.exc, msg |-> sub.msg,
             node |-> [c.node EXCEPT !.body = sub.body],
             next |-> sub.next, block |-> TRUE]
        Compound(c) ==
            IF ~c.ok THEN OnLine(Invalid)
            ELSE IF c.rest # <<>> THEN Inline(c, ParseSimple(c.rest))
            ELSE IF i + 1 > Len(ls) \/ Indent(ls[i + 1]) <= ind
            THEN [exc |-> "IndentationError", msg |-> "expected an indented block",
                  node |-> Invalid, next |-> i + 1, block |-> FALSE]
            ELSE Block(c, ParseSuite(ls, i + 1, Indent(ls[i + 1]), FALSE))
        Statement(toks) ==
            IF toks[1] \in CompoundKeywords THEN Compound(ParseCompound(toks))
            ELSE OnLine(ParseSimple(toks))
    IN  IF i > Len(ls) \/ Indent(ls[i]) < ind
        THEN [exc |-> "None", msg |-> "", body |-> <<>>, next |-> i]
        ELSE IF Indent(ls[i]) > ind
        THEN Failure("IndentationError",
                     IF dedent THEN "unindent does not match any outer indentation level"
                     ELSE "unexpected indent")
        ELSE Then(Statement(Strip(ls[i])))

\* ast.parse(code): the Module node, or the exception it raises
ast_parse(text) ==
    LET Module(r) ==
            [exc |-> r.exc, msg |-> r.msg, tree |-> [kind |-> "Module", body |-> r.body]]
    IN  Module(ParseSuite(SelectSeq(text, LAMBDA l : Strip(l) # <<>>), 1, 0, FALSE))

----------------------------------------------------------------------------
(* ast.walk, ast.unparse. *)

\* ast.iter_child_nodes(node): the child nodes, in the order of the node's fields
Children(node) ==
    CASE node.kind \in {"Module", "ClassDef"} -> node.body
      [] node.kind \in {"FunctionDef", "AsyncFunctionDef"} -> <<node.args>> \o node.body
      [] node.kind = "arguments" ->
            node.posonlyargs \o node.args \o node.vararg \o node.kwonlyargs
                \o node.kw_defaults \o node.defaults
      [] node.kind \in {"Import", "ImportFrom"} -> node.names
      [] node.kind = "Assign" -> node.targets \o <<node.value>>
      [] node.kind = "Expr" -> <<node.value>>
      [] node.kind = "Call" -> <<node.func>> \o node.args \o node.keywords
      [] node.kind = "keyword" -> <<node.value>>
      [] node.kind = "Attribute" -> <<node.value>>
      [] node.kind = "Subscript" -> <<node.value, node.slice>>
      [] node.kind \in {"Tuple", "List"} -> node.elts
      [] node.kind = "Compare" -> <<node.left, node.right>>
      [] OTHER -> <<>>

\* ast.walk: todo = deque([node]); pop left, extend with the children, yield
RECURSIVE WalkQueue(_)
WalkQueue(todo) ==
    IF todo = <<>> THEN <<>>
    ELSE <<Head(todo)>> \o WalkQueue(Tail(todo) \o Children(Head(todo)))

walk(node) == WalkQueue(<<node>>)

RECURSIVE Join(_, _)
Join(strs, sep) ==
    IF strs = <<>> THEN ""
    ELSE IF Len(strs) = 1 THEN strs[1]
    ELSE strs[1] \o sep \o Join(Tail(strs), sep)

UnparseAlias(a) == IF a.asname = "None" THEN a.name ELSE a.name \o " as " \o a.asname

\* repr of the value of a literal: a string comes out in single quotes
Repr(literal) == IF literal = Docstring THEN "'doc'" ELSE literal

\* ast.unparse(node): the node's source text, in the one spacing ast.unparse writes
RECURSIVE unparse(_)
unparse(node) ==
    CASE node.kind = "Name" -> node.id
      [] node.kind = "Constant" -> Repr(node.value)
      [] node.kind = "Dict" -> "{}"
      [] node.kind = "List" -> "[" \o Join(Map(unparse, node.elts), ", ") \o "]"
      [] node.kind = "Tuple" -> "(" \o Join(Map(unparse, node.elts), ", ") \o ")"
      [] node.kind = "Compare" -> unparse(node.left) \o " == " \o unparse(node.right)
      [] node.kind = "Attribute" -> unparse(node.value) \o "." \o node.attr
      [] node.kind = "Subscript" ->
            unparse(node.value) \o "[" \o unparse(node.slice) \o "]"
      [] node.kind = "keyword" -> node.arg \o "=" \o unparse(node.value)
      [] node.kind = "Call" ->
            unparse(node.func) \o "("
                \o Join(Map(unparse, node.args \o node.keywords), ", ") \o ")"
      [] node.kind = "Import" -> "import " \o Join(Map(UnparseAlias, node.names), ", ")
      [] node.kind = "ImportFrom" ->
            "from " \o node.module \o " import "
                \o Join(Map(UnparseAlias, node.names), ", ")
      [] OTHER -> "?"

----------------------------------------------------------------------------
(* Exceptions, and what a function hands back. *)

\* the base class of each exception class
Base(cls) ==
    CASE cls = "IndentationError" -> "SyntaxError"
      [] cls = "SyntaxError" -> "Exception"
      [] cls = "ValueError" -> "Exception"
      [] cls = "FileNotFoundError" -> "OSError"
      [] cls = "OSError" -> "Exception"
      [] cls = "RuntimeError" -> "Exception"
      [] cls = "TypeError" -> "Exception"
      [] cls = "KeyError" -> "LookupError"
      [] cls = "LookupError" -> "Exception"
      [] cls = "Exception" -> "BaseException"
      [] OTHER -> "object"

RECURSIVE IsInstance(_, _)
IsInstance(cls, handled) ==
    IF cls = handled THEN TRUE
    ELSE IF cls \in {"None", "object"} THEN FALSE
    ELSE IsInstance(Base(cls), handled)

NoResult == [pending |-> TRUE]

Return(v) == [value |-> v, raised |-> "None", msg |-> ""]
Raise(cls, msg) == [value |-> NoResult, raised |-> cls, msg |-> msg]

----------------------------------------------------------------------------
(* CodeAnalysisTool. *)

\* the classes an except clause for ValueError alone would handle
OnlyValueError == "ValueError"

\* the classes the except clause of CodeAnalysisTool._run handles
CodeAnalysisHandled == "Exception"

\* what the except clause of a _run does with what its try statement did
Handle(r, handled) ==
    IF r.raised # "None" /\ IsInstance(r.raised, handled)
    THEN Return([error |-> r.msg, success |-> FALSE])
    ELSE r

\* methods = [n.name for n in ast.walk(node) if isinstance(n, ast.FunctionDef)]
ClassMethods(node) == SelectSeq(walk(node), LAMBDA n : n.kind = "FunctionDef")

\* the entries of an extraction that took only node.targets[0], and only of an
\* assignment with one target
SingleTargetVariables(node) ==
    IF Len(node.targets) = 1 /\ node.targets[1].kind = "Name"
    THEN <<[name |-> node.targets[1].id, value |-> unparse(node.value)]>>
    ELSE <<>>

\* for target in node.targets: if isinstance(target, ast.Name): variables.append(...)
AssignVariables(node) ==
    LET Entries(value) ==
            Map(LAMBDA t : [name |-> t.id, value |-> value],
                SelectSeq(node.targets, LAMBDA t : t.kind = "Name"))
    IN  Entries(unparse(node.value))

\* the four loops of CodeAnalysisTool._run over ast.walk(tree)
Extract(nodes) ==
    [imports |->
         Map(unparse, SelectSeq(nodes, LAMBDA n : n.kind \in {"Import", "ImportFrom"})),
     function_calls |->
         Map(LAMBDA n : n.func.id,
             SelectSeq(nodes, LAMBDA n : n.kind = "Call" /\ n.func.kind = "Name")),
     attributes |->
         Map(LAMBDA n : unparse(n.func),
             SelectSeq(nodes, LAMBDA n : n.kind = "Call" /\ n.func.kind = "Attribute")),
     classes |->
         Map(LAMBDA n : [name |-> n.name,
                         methods |-> Map(LAMBDA m : m.name, ClassMethods(n))],
             SelectSeq(nodes, LAMBDA n : n.kind = "ClassDef")),
     variables |->
         Concat(Map(AssignVariables, SelectSeq(nodes, LAMBDA n : n.kind = "Assign"))),
     success |-> TRUE]

\* the body of the try statement of CodeAnalysisTool._run
CodeAnalysisTool_try(text) ==
    LET Parsed(p) ==
            IF p.exc # "None" THEN Raise(p.exc, p.msg) ELSE Return(Extract(walk(p.tree)))
    IN  Parsed(ast_parse(text))

CodeAnalysisTool_run(text) == Handle(CodeAnalysisTool_try(text), CodeAnalysisHandled)

----------------------------------------------------------------------------
(* SolutionValidator. *)

\* an occurrence of the tokens pat, one after the other, in line
HasRun(line, pat) ==
    \E i \in 1..Len(line) :
        i + Len(pat) - 1 <= Len(line) /\ SubSeq(line, i, i + Len(pat) - 1) = pat

\* the text as one sequence of tokens, the lines joined by "\n"
RECURSIVE Flat(_)
Flat(text) ==
    IF text = <<>> THEN <<>>
    ELSE IF Len(text) = 1 THEN text[1]
    ELSE text[1] \o <<"\n">> \o Flat(Tail(text))

\* line.rstrip(): the line without the white space it ends with
RECURSIVE rstrip(_)
rstrip(line) ==
    IF line # <<>> /\ IsSpace(line[Len(line)])
    THEN rstrip(SubSeq(line, 1, Len(line) - 1))
    ELSE line

\* line.endswith(' ')
EndsWithSpace(line) == line # <<>> /\ line[Len(line)] = " "

\* the longest line that passes the line length check
MaxLineLength == 79

SolutionValidator_check_pep8(text) ==
    /\ \A i \in 1..Len(text) : "\t" \notin Range(text[i])
    /\ ~ \E i \in 1..Len(text) : EndsWithSpace(rstrip(text[i]))
    /\ \A i \in 1..Len(text) : LineLength(text[i]) <= MaxLineLength

\* has_docstring: three double quotes, or three single quotes, in code
HasDocstring(text) == \E i \in 1..Len(text) : Docstring \in Range(text[i])

\* has_type_hints: the search for a colon, white space (line ends too) if any,
\* and a letter
HasTypeHints(text) ==
    LET Found(f) ==
            \E i, j \in 1..Len(f) :
                /\ i < j /\ f[i] = ":" /\ StartsWithLetter(f[j])
                /\ \A k \in (i + 1)..(j - 1) : IsSpace(f[k])
    IN  Found(Flat(text))

\* has_error_handling: "try:" in code and "except" in code
HasErrorHandling(text) ==
    /\ \E i \in 1..Len(text) : HasRun(text[i], <<"try", ":">>)
    /\ \E i \in 1..Len(text) : "except" \in Range(text[i])

\* bare_except: "except:" in code
BareExcept(text) == \E i \in 1..Len(text) : HasRun(text[i], <<"except", ":">>)

\* global_variables: the MULTILINE search for a line that starts with
\* characters of [A-Z_], then white space if any, then "="
GlobalVariables(text) ==
    \E i \in 1..Len(text) :
        \E j \in 2..Len(text[i]) :
            /\ IsUpperUnderscore(text[i][1])
            /\ StartsWithEquals(text[i][j])
            /\ \A k \in 2..(j - 1) : IsSpace(text[i][k])

\* mutable_defaults: the search, on one line, for "def", later "(", later
\* "=[]" or "={}", later ")"
MutableDefaults(text) ==
    \E i \in 1..Len(text) :
        \E d, o, e, c \in 1..Len(text[i]) :
            /\ d < o /\ o < e /\ e + 2 < c
            /\ ContainsDef(text[i][d])
            /\ text[i][o] = "("
            /\ EndsWithEquals(text[i][e])
            /\ <<text[i][e + 1], text[i][e + 2]>> \in {<<"[", "]">>, <<"{", "}">>}
            /\ text[i][c] = ")"

\* the findings for one class: methods = [n for n in ast.walk(node) if
\* isinstance(n, ast.FunctionDef)], and of these the ones whose args are not
\* empty and do not start with self
ClassIssues(node) ==
    Map(LAMBDA m : "Method '" \o m.name \o "' missing 'self' parameter",
        SelectSeq(ClassMethods(node),
                  LAMBDA m : Len(m.args.args) > 0 /\ m.args.args[1].arg # "self"))

\* the classes the except clause of SolutionValidator._run handles
SolutionValidatorHandled == "Exception"

\* the body of the try statement of SolutionValidator._run
SolutionValidator_try(text) ==
    LET Parsed(quality_checks, anti_patterns, p) ==
            IF p.exc # "None" THEN Raise(p.exc, p.msg)
            ELSE Return(
                [quality_checks |-> quality_checks,
                 anti_patterns  |-> anti_patterns,
                 class_issues   |->
                     Concat(Map(ClassIssues,
                                SelectSeq(walk(p.tree), LAMBDA n : n.kind = "ClassDef"))),
                 success |-> TRUE])
    IN  Parsed([has_docstring      |-> HasDocstring(text),
                has_type_hints     |-> HasTypeHints(text),
                has_error_handling |-> HasErrorHandling(text),
                follows_pep8       |-> SolutionValidator_check_pep8(text)],
               [bare_except      |-> BareExcept(text),
                global_variables |-> GlobalVariables(text),
                mutable_defaults |-> MutableDefaults(text)],
               ast_parse(text))

SolutionValidator_run(text) ==
    Handle(SolutionValidator_try(text), SolutionValidatorHandled)

----------------------------------------------------------------------------
(* DependencyAnalyzer. *)

common_dep_files ==
    <<"requirements.txt", "pyproject.toml", "setup.py", "Pipfile", "poetry.lock">>

\* what subprocess.run(["pip", "list", "--format=json"], capture_output=True,
\* text=True) does: "ok" (exit status 0), "nonzero" (another exit status),
\* "missing" (no pip binary: FileNotFoundError), "hang" (pip never ends, and
\* no timeout is passed)
PipOutcomes == {"ok", "nonzero", "missing", "hang"}

PipInventory == "[{name: pip, version: 23.2.1}]"

\* result.stdout
Stdout(outcome) == IF outcome = "ok" THEN PipInventory ELSE ""

\* the classes the except clause of DependencyAnalyzer._run handles
DependencyAnalyzerHandled == "Exception"

\* the body of the try statement of DependencyAnalyzer._run, when pip ends
DependencyAnalyzer_try(present, outcome) ==
    IF outcome = "missing"
    THEN Raise("FileNotFoundError", "[Errno 2] No such file or directory: 'pip'")
    ELSE Return(
        [installed_packages |-> Stdout(outcome),
         dependency_files   |-> SelectSeq(common_dep_files, LAMBDA f : f \in present),
         success            |-> TRUE])

DependencyAnalyzer_run(present, outcome) ==
    Handle(DependencyAnalyzer_try(present, outcome), DependencyAnalyzerHandled)

----------------------------------------------------------------------------
(* Debugger, and main.run. *)

\* None, and a dict
None == [isNone |-> TRUE, d |-> [k \in {} |-> ""]]
Dict(d) == [isNone |-> FALSE, d |-> d]

required_fields == <<"code_issue", "code_context", "project_path">>

\* datetime.now().isoformat(), at the moments the model tells apart
Times == {"t1", "t2"}

SetItem(d, key, value) ==
    [k \in DOMAIN d \cup {key} |-> IF k = key THEN value ELSE d[k]]

\* a validation without the loop over required_fields
ValidateWithoutRequired(inp, now) ==
    IF inp.isNone THEN Return(None)
    ELSE Return(Dict(SetItem(inp.d, "timestamp", now)))

\* Debugger._validate_inputs(inputs), called at time now
Debugger_validate_inputs(inp, now) ==
    LET Checked(missing) ==
            IF inp.isNone THEN Return(None)
            ELSE IF missing # <<>> THEN Raise("ValueError", missing[1] \o " is required")
            ELSE Return(Dict(SetItem(inp.d, "timestamp", now)))
    IN  Checked(SelectSeq(required_fields, LAMBDA f : f \notin DOMAIN inp.d))

\* the exit status of the except clauses of main.run: ValueError, then Exception
main_handler(cls) ==
    IF IsInstance(cls, "ValueError") THEN 1
    ELSE IF IsInstance(cls, "Exception") THEN 1
    ELSE -1

NotCaught == [cls |-> "None", at |-> "none"]
NotCalled == [called |-> FALSE, inputs |-> None]


----------------------------------------------------------------------------
(* The tools' state machine: a text is handed to a tool, and _run returns. *)

ToolsIdle == code = <<>> /\ tool = "none" /\ result = NoResult /\ escaped = "None"

ScanIdle == files = {} /\ pip = "ok" /\ scanPc = "idle" /\ scanResult = NoResult

RunIdle ==
    /\ pc = "idle" /\ inputs = None /\ inputs0 = None /\ entry = "none"
    /\ created = {}
    /\ kickoff = NotCalled /\ outputDir = FALSE /\ debugResults = {}
    /\ caught = NotCaught /\ exitStatus = -1

InitTools(lines) ==
    /\ code \in Texts(lines, MaxLines)
    /\ tool = "none" /\ result = NoResult /\ escaped = "None"
    /\ ScanIdle /\ RunIdle

\* code_analysis_tool._run(code)
RunCodeAnalysis ==
    /\ tool = "none"
    /\ LET Returns(r) == result' = r.value /\ escaped' = r.raised
       IN  Returns(CodeAnalysisTool_run(code))
    /\ tool' = "code_analysis"
    /\ UNCHANGED <<code, scanVars, runVars>>

\* solution_validator_tool._run(code)
RunSolutionValidator ==
    /\ tool = "none"
    /\ LET Returns(r) == result' = r.value /\ escaped' = r.raised
       IN  Returns(SolutionValidator_run(code))
    /\ tool' = "solution_validator"
    /\ UNCHANGED <<code, scanVars, runVars>>

\* a line: indentation of ind spaces, then the tokens
L(ind, toks) == Spaces(ind) \o toks

\* the lines of the texts handed to both tools
LinesCore ==
    { L(0, <<"def", " ", "f", "(", ":">>),
      L(0, <<"import", " ", "os">>),
      L(0, <<"class", " ", "C", ":">>),
      L(1, <<"def", " ", "get", "(", ")", ":", " ", "pass">>),
      L(0, <<"x", " ", "=", " ", "1">>),
      L(1, <<"x", " ", "=", " ", "1">>),
      L(0, <<"a", ".", "b", "(", ")">>) }

\* the lines of the texts with imports and classes
LinesFacts ==
    { L(0, <<"import", " ", "os">>),
      L(0, <<"import", " ", "sys", " ", "as", " ", "s">>),
      L(1, <<"import", " ", "os">>),
      L(1, <<"from", " ", "a", " ", "import", " ", "b">>),
      L(0, <<"def", " ", "f", "(", ")", ":">>),
      L(0, <<"class", " ", "C", ":">>),
      L(1, <<"class", " ", "D", ":">>),
      L(1, <<"def", " ", "m", "(", "self", ")", ":">>),
      L(1, <<"def", " ", "z", "(", "self", ")", ":", " ", "pass">>),
      L(2, <<"def", " ", "h", "(", ")", ":", " ", "pass">>),
      L(2, <<"pass">>) }

\* the lines of the texts with assignments
LinesVariables ==
    { L(0, <<"a", " ", "=", " ", "b", " ", "=", " ", "1">>),
      L(0, <<"k", " ", "=", " ", "c", ".", "d", " ", "=", " ", "[", " ", "]">>),
      L(0, <<"c", ".", "d", " ", "=", " ", "2">>),
      L(0, <<"e", "[", "0", "]", " ", "=", " ", "1">>),
      L(0, <<"f", ",", " ", "g", " ", "=", " ", "1", ",", " ", "2">>),
      L(0, <<"x", "=", Docstring>>),
      L(0, <<"def", " ", "f", "(", ")", ":">>),
      L(1, <<"y", " ", "=", " ", "f", "(", ")">>) }

\* the lines of the texts handed to the validator
LinesValidator ==
    { L(0, <<"class", " ", "C", ":">>),
      L(1, <<"def", " ", "get", "(", ")", ":", " ", "pass">>),
      L(1, <<"def", " ", "a", "(", "x", ")", ":", " ", "pass">>),
      L(1, <<"def", " ", "b", "(", "self", ")", ":", " ", "pass">>),
      L(1, <<"async", " ", "def", " ", "c", "(", "x", ")", ":", " ", "pass">>),
      L(0, <<"X", " ", "=", " ", "1">>),
      L(0, <<"x", " ", "=", " ", "1">>),
      L(0, <<"def", " ", "f", "(", "data", "=", "[", "]", ")", ":", " ", "pass">>),
      L(0, <<"def", " ", "g", "(", "data", " ", "=", " ", "[", "]", ")", ":", " ", "pass">>),
      L(0, <<"def", " ", "k", "(", ")", ":", " ", "u", "(", "x", "=", "{", "}", ")">>),
      L(0, <<"x", " ", "=", " ", "1", " ">>),
      L(0, <<"y", "\t", "=", " ", "1">>),
      L(0, <<"x", " ", "=", " ", LongString>>) }

Init == InitTools(LinesCore)
Next == RunCodeAnalysis \/ RunSolutionValidator
Spec == Init /\ [][Next]_vars

InitFacts == InitTools(LinesFacts)
NextFacts == RunCodeAnalysis
SpecFacts == InitFacts /\ [][NextFacts]_vars

InitVariables == InitTools(LinesVariables)
NextVariables == RunCodeAnalysis
SpecVariables == InitVariables /\ [][NextVariables]_vars

InitValidator == InitTools(LinesValidator)
NextValidator == RunSolutionValidator
SpecValidator == InitValidator /\ [][NextValidator]_vars

----------------------------------------------------------------------------
(* The scan's state machine. *)

AllFiles == Range(common_dep_files) \cup {"README.md"}

InitScan ==
    /\ files \in SUBSET AllFiles
    /\ pip \in PipOutcomes
    /\ scanPc = "idle" /\ scanResult = NoResult
    /\ ToolsIdle /\ RunIdle

\* dependency_analyzer_tool._run(project_path), when pip ends
Scan ==
    /\ scanPc = "idle" /\ pip # "hang"
    /\ scanResult' = DependencyAnalyzer_run(files, pip).value
    /\ scanPc' = "done"
    /\ UNCHANGED <<files, pip, toolVars, runVars>>

\* dependency_analyzer_tool._run(project_path), when pip never ends
ScanBlocks ==
    /\ scanPc = "idle" /\ pip = "hang"
    /\ scanPc' = "blocked"
    /\ UNCHANGED <<files, pip, scanResult, toolVars, runVars>>

NextScan == Scan \/ ScanBlocks
SpecScan == InitScan /\ [][NextScan]_vars

----------------------------------------------------------------------------
(* main.run, and Debugger.run within it. *)

\* the keys an inputs dict may hold
InputKeys == Range(required_fields) \cup {"timestamp"}

InputChoices ==
    {None} \cup
    {Dict([k \in K |-> IF k = "timestamp" THEN "t0" ELSE "given"]) : K \in SUBSET InputKeys}

\* the functions a run may start at: main.run, or Debugger.run called by other code
Entries == {"main.run", "Debugger.run"}

InitRun ==
    /\ entry \in Entries
    /\ pc = IF entry = "main.run" THEN "makedirs" ELSE "validate"
    /\ inputs0 \in InputChoices /\ inputs = inputs0
    /\ created = {} /\ kickoff = NotCalled
    /\ outputDir \in BOOLEAN /\ debugResults = {}
    /\ caught = NotCaught /\ exitStatus = -1
    /\ ToolsIdle /\ ScanIdle

\* an exception of class cls is raised at statement at: it reaches the except
\* clauses of main.run, or leaves Debugger.run
Exits(cls, at) ==
    /\ caught' = [cls |-> cls, at |-> at]
    /\ IF entry = "main.run"
       THEN pc' = "exited" /\ exitStatus' = main_handler(cls)
       ELSE pc' = "raised" /\ UNCHANGED exitStatus

\* os.makedirs('output', exist_ok=True)
MakeDirs ==
    /\ pc = "makedirs"
    /\ outputDir' = TRUE
    /\ pc' = "print"
    /\ UNCHANGED <<inputs, inputs0, entry, created, kickoff, debugResults, caught,
                   exitStatus, toolVars, scanVars>>

\* print(inputs['code_issue']), among the prints of main.run
PrintIssue ==
    /\ pc = "print"
    /\ IF inputs.isNone THEN Exits("TypeError", "print")
       ELSE IF "code_issue" \notin DOMAIN inputs.d THEN Exits("KeyError", "print")
       ELSE pc' = "validate" /\ UNCHANGED <<caught, exitStatus>>
    /\ UNCHANGED <<inputs, inputs0, entry, created, kickoff, outputDir, debugResults,
                   toolVars, scanVars>>

\* validated_inputs = self._validate_inputs(inputs)
ValidateInputs ==
    /\ pc = "validate"
    /\ \E now \in Times :
        LET Returns(r) ==
                IF r.raised # "None"
                THEN Exits(r.raised, "validate") /\ UNCHANGED inputs
                ELSE inputs' = r.value /\ pc' = "create_agents"
                     /\ UNCHANGED <<caught, exitStatus>>
        IN  Returns(Debugger_validate_inputs(inputs, now))
    /\ UNCHANGED <<inputs0, entry, created, kickoff, outputDir, debugResults,
                   toolVars, scanVars>>

\* agents = self._create_agents()
CreateAgents ==
    /\ pc = "create_agents"
    /\ created' = created \cup {"agents"}
    /\ pc' = "create_tasks"
    /\ UNCHANGED <<inputs, inputs0, entry, kickoff, outputDir, debugResults, caught,
                   exitStatus, toolVars, scanVars>>

\* tasks = self._create_tasks()
CreateTasks ==
    /\ pc = "create_tasks"
    /\ created' = created \cup {"tasks"}
    /\ pc' = "create_crew"
    /\ UNCHANGED <<inputs, inputs0, entry, kickoff, outputDir, debugResults, caught,
                   exitStatus, toolVars, scanVars>>

\* crew = Crew(agents=agents, tasks=tasks, ...)
CreateCrew ==
    /\ pc = "create_crew"
    /\ created' = created \cup {"crew"}
    /\ pc' = "kickoff"
    /\ UNCHANGED <<inputs, inputs0, entry, kickoff, outputDir, debugResults, caught,
                   exitStatus, toolVars, scanVars>>

\* result = crew.kickoff(inputs=validated_inputs); return self._format_results(result)
Kickoff ==
    /\ pc = "kickoff"
    /\ kickoff' = [called |-> TRUE, inputs |-> inputs]
    /\ pc' = IF entry = "main.run" THEN "write" ELSE "returned"
    /\ UNCHANGED <<inputs, inputs0, entry, created, outputDir, debugResults, caught,
                   exitStatus, toolVars, scanVars>>

\* with open(f"output/debug_result_{timestamp}.md", 'w') as f: f.write(result)
WriteResult ==
    /\ pc = "write"
    /\ \E now \in Times :
        debugResults' = debugResults \cup {"output/debug_result_" \o now \o ".md"}
    /\ pc' = "done"
    /\ exitStatus' = 0
    /\ UNCHANGED <<inputs, inputs0, entry, created, kickoff, outputDir, caught,
                   toolVars, scanVars>>

\* the exceptions a call into os or crewai may raise at statement at
RaisableAt(at) ==
    IF at \in {"makedirs", "write"} THEN {"OSError"}
    ELSE IF at \in {"create_agents", "create_tasks", "create_crew", "kickoff"}
    THEN {"RuntimeError", "ValueError"}
    ELSE {}

\* the statement the run stands at raises
LibraryRaises ==
    /\ \E cls \in RaisableAt(pc) : Exits(cls, pc)
    /\ UNCHANGED <<inputs, inputs0, entry, created, kickoff, outputDir, debugResults,
                   toolVars, scanVars>>

NextRun ==
    \/ MakeDirs
    \/ PrintIssue
    \/ ValidateInputs
    \/ CreateAgents
    \/ CreateTasks
    \/ CreateCrew
    \/ Kickoff
    \/ WriteResult
    \/ LibraryRaises

SpecRun == InitRun /\ [][NextRun]_vars

----------------------------------------------------------------------------
(* The properties. *)

\* the text handed to the tool parses, and its tree
Parses == ast_parse(code).exc = "None"
Tree == ast_parse(code).tree

\* the nodes of a tree in the order their text appears in the source
RECURSIVE Preorder(_)
Preorder(node) == <<node>> \o Concat(Map(Preorder, Children(node)))

Count(s, e) == Cardinality({i \in 1..Len(s) : s[i] = e})

\* s and t hold the same entries, each as many times
SameEntries(s, t) == \A e \in Range(s) \cup Range(t) : Count(s, e) = Count(t, e)

\* the analysis, or the validation, of a text that parses has returned
Analysed == tool = "code_analysis" /\ escaped = "None" /\ Parses
Validated == tool = "solution_validator" /\ escaped = "None" /\ Parses

\* the payload keys of each tool
Payload(t) ==
    IF t = "code_analysis"
    THEN {"imports", "function_calls", "attributes", "classes", "variables"}
    ELSE {"quality_checks", "anti_patterns", "class_issues"}

ScanIsolatesPipFailure ==
    pip # "ok" /\ scanPc # "idle" =>
        /\ scanPc = "done"
        /\ scanResult.success
        /\ scanResult.dependency_files = SelectSeq(common_dep_files, LAMBDA f : f \in files)
        /\ scanResult.installed_packages # PipInventory

\* C2: with a manifest file present and no pip binary, the scan as a whole failed
MissingPipFailsScan ==
    /\ scanPc = "done" /\ pip = "missing" /\ files = {"requirements.txt"}
    /\ scanResult = [error |-> "[Errno 2] No such file or directory: 'pip'",
                     success |-> FALSE]

\* C3: for a text that parses, imports holds the text of every import
\* statement, once per occurrence, in the order the statements appear in the
\* source, whatever their nesting depth.
ImportsInSourceOrder ==
    Analysed =>
        result.imports =
            Map(unparse, SelectSeq(Preorder(Tree),
                                   LAMBDA n : n.kind \in {"Import", "ImportFrom"}))

\* C3: an import in a function body, then one at top level: the later is listed first
NestedImportListedLast ==
    /\ tool = "code_analysis"
    /\ code = << L(0, <<"def", " ", "f", "(", ")", ":">>),
                 L(1, <<"import", " ", "os">>),
                 L(0, <<"import", " ", "sys", " ", "as", " ", "s">>) >>
    /\ escaped = "None"
    /\ result.imports = <<"import sys as s", "import os">>

\* the names of the functions declared directly in the body of a class
DirectMethods(class) ==
    Map(LAMBDA m : m.name,
        SelectSeq(class.body, LAMBDA m : m.kind \in {"FunctionDef", "AsyncFunctionDef"}))

\* C4: for every class of a text that parses, the methods recorded for the
\* class are the names of the functions declared directly in its body, in
\* declaration order: neither a function nested in a method nor a method of a
\* nested class is among them.
MethodsAreDirectMembers ==
    Analysed =>
        SameEntries(result.classes,
                    Map(LAMBDA c : [name |-> c.name, methods |-> DirectMethods(c)],
                        SelectSeq(Preorder(Tree), LAMBDA n : n.kind = "ClassDef")))

\* C4: a function nested in a method is listed among the methods of the class
NestedFunctionListedAsMethod ==
    /\ tool = "code_analysis"
    /\ code = << L(0, <<"class", " ", "C", ":">>),
                 L(1, <<"def", " ", "m", "(", "self", ")", ":">>),
                 L(2, <<"def", " ", "h", "(", ")", ":", " ", "pass">>) >>
    /\ escaped = "None"
    /\ result.classes = <<[name |-> "C", methods |-> <<"m", "h">>]>>

\* the entries of the plain-name targets of the assignments that satisfy keep
NameTargets(tree, keep(_)) ==
    Concat(Map(LAMBDA n : Map(LAMBDA t : [name |-> t.id, value |-> unparse(n.value)],
                              SelectSeq(n.targets, LAMBDA t : t.kind = "Name")),
               SelectSeq(Preorder(tree), LAMBDA n : n.kind = "Assign" /\ keep(n))))

Parameters(f) ==
    Map(LAMBDA a : a.arg,
        f.args.posonlyargs \o f.args.args \o f.args.vararg \o f.args.kwonlyargs)

Finding(name) == "Method '" \o name \o "' missing 'self' parameter"

\* C6: for a text that parses, class_issues names every method declared in a
\* class body that has a parameter and whose first parameter is not self, and
\* names no method without parameters and no method whose first parameter is
\* self.
MissingSelfFlagged ==
    Validated =>
        \A c \in Range(SelectSeq(Preorder(Tree), LAMBDA n : n.kind = "ClassDef")) :
            \A m \in Range(SelectSeq(c.body,
                    LAMBDA n : n.kind \in {"FunctionDef", "AsyncFunctionDef"})) :
                Finding(m.name) \in Range(result.class_issues)
                    <=> Parameters(m) # <<>> /\ Parameters(m)[1] # "self"

\* C6: an async method whose only parameter is x draws no finding
AsyncMethodNotFlagged ==
    /\ tool = "solution_validator"
    /\ code = << L(0, <<"class", " ", "C", ":">>),
                 L(1, <<"async", " ", "def", " ", "c", "(", "x", ")", ":", " ", "pass">>) >>
    /\ escaped = "None"
    /\ result.class_issues = <<>>

\* a target that is a name of upper-case letters and underscores
IsConstantTarget(t) == t.kind = "Name" /\ IsUpperUnderscore(t.id)

\* C7: global_variables is set by a module-level assignment to anything but
\* an upper-case name, and by nothing else: a module-level assignment to an
\* upper-case name is taken for a constant.
ConstantsExempt ==
    Validated =>
        result.anti_patterns.global_variables
            <=> \E i \in 1..Len(Tree.body) :
                    /\ Tree.body[i].kind = "Assign"
                    /\ \E k \in 1..Len(Tree.body[i].targets) :
                           ~IsConstantTarget(Tree.body[i].targets[k])

\* C7: the module-level assignment x = 1 does not set global_variables
LowerCaseNotFlagged ==
    /\ tool = "solution_validator"
    /\ code = <<L(0, <<"x", " ", "=", " ", "1">>)>>
    /\ escaped = "None"
    /\ ~result.anti_patterns.global_variables

\* an empty list literal, or an empty mapping literal
IsEmptyLiteral(e) == (e.kind = "List" /\ e.elts = <<>>) \/ e.kind = "Dict"

\* the defaults, of the parameters of the functions of a tree, that are empty literals
MutableDefaultsOf(tree) ==
    SelectSeq(
        Concat(Map(LAMBDA f : f.args.defaults \o f.args.kw_defaults,
                   SelectSeq(Preorder(tree),
                             LAMBDA n : n.kind \in {"FunctionDef", "AsyncFunctionDef"}))),
        IsEmptyLiteral)

\* C8: for a text that parses, mutable_defaults is set when a parameter of
\* a function or method has an empty list or mapping literal for default, and
\* is not set when no parameter has.
MutableDefaultsFlagged ==
    Validated =>
        result.anti_patterns.mutable_defaults <=> MutableDefaultsOf(Tree) # <<>>

\* C8: def g(data = []): pass, the default set off by spaces, is not flagged
SpacedDefaultNotFlagged ==
    /\ tool = "solution_validator"
    /\ code = <<L(0, <<"def", " ", "g", "(", "data", " ", "=", " ", "[", "]", ")", ":",
                       " ", "pass">>)>>
    /\ escaped = "None"
    /\ ~result.anti_patterns.mutable_defaults

\* C9: follows_pep8 is true exactly when the text holds no tab, no line ends
\* in white space, and no line is longer than 79 characters.
Pep8Exact ==
    Validated =>
        result.quality_checks.follows_pep8
            <=> \A i \in 1..Len(code) :
                    /\ "\t" \notin Range(code[i])
                    /\ ~(code[i] # <<>> /\ IsSpace(code[i][Len(code[i])]))
                    /\ LineLength(code[i]) <= MaxLineLength

\* C9: a text whose only line ends in a space passes for following PEP 8
TrailingSpacePasses ==
    /\ tool = "solution_validator"
    /\ code = <<L(0, <<"x", " ", "=", " ", "1", " ">>)>>
    /\ escaped = "None"
    /\ result.quality_checks.follows_pep8

\* a dict that lacks a required field
Missing(inp) == ~inp.isNone /\ \E f \in Range(required_fields) : f \notin DOMAIN inp.d

\* C10: Debugger.run validates its inputs before it creates an agent, a
\* task or the crew. Of a dict that lacks code_issue, code_context or
\* project_path nothing is created, the crew is not kicked off and the dict is
\* left as it was: what leaves Debugger.run is the ValueError of the
\* validation. main.run then writes no debug_result file, and once it has
\* exited its status is 1 (after that ValueError, or after a statement of its
\* own before Debugger.run failed). A dict the crew is kicked off with holds
\* the three required fields and a timestamp.
ValidationComesFirst ==
    /\ Missing(inputs0) =>
           /\ created = {} /\ ~kickoff.called
           /\ inputs = inputs0
           /\ debugResults = {}
           /\ pc \in {"makedirs", "print", "validate", "exited", "raised"}
           /\ pc = "raised" => caught = [cls |-> "ValueError", at |-> "validate"]
           /\ pc = "exited" =>
                  /\ exitStatus = 1
                  /\ caught \in {[cls |-> "ValueError", at |-> "validate"],
                                 [cls |-> "KeyError", at |-> "print"],
                                 [cls |-> "OSError", at |-> "makedirs"]}
    /\ created # {} =>
           inputs0.isNone \/ InputKeys \subseteq DOMAIN inputs.d
    /\ kickoff.called /\ ~kickoff.inputs.isNone =>
           InputKeys \subseteq DOMAIN kickoff.inputs.d

\* C10: main.run has exited with status 1 on the ValueError for a dict without project_path
MissingFieldExits ==
    /\ entry = "main.run"
    /\ inputs0 = Dict([k \in {"code_issue", "code_context"} |-> "given"])
    /\ pc = "exited" /\ exitStatus = 1
    /\ caught = [cls |-> "ValueError", at |-> "validate"]
    /\ inputs = inputs0 /\ created = {} /\ ~kickoff.called /\ debugResults = {}

====
